---- MODULE Spec2Model ----
(***************************************************************************)
(* A model of plugins/catalog-backend-module-gitlab/src/lib/client.ts:     *)
(* the GitLabClient listing operations, pagedRequest, request,             *)
(* listOptionsToQueryString and the paginated async generator.             *)
(*                                                                         *)
(* Strings are sequences of tokens.  A token is a run of characters that   *)
(* no conversion of the program looks into (a name, a numeral, an origin)  *)
(* or a single reserved character.                                         *)
(* JavaScript values are tagged records, so that truthiness and            *)
(* stringification are computed as the run time computes them.             *)
(***************************************************************************)
EXTENDS Integers, Sequences, FiniteSets, TLC

(***************************************************************************)
(* Bounds of the model.                                                    *)
(***************************************************************************)
\* fetches one walk may issue
MaxFetch == 2
\* items in one page body
MaxItems == 2
\* largest page number the x-next-page header names
MaxPageNo == 2
\* next() calls of the consumer that may be queued on one generator
MaxPending == 2
\* next() calls made on a generator that has already completed
MaxPost == 1
\* fetches the two interleaved walks may issue together
MaxFetchTwo == 3
\* items in one page body when two walks interleave
MaxItemsTwo == 1
\* entries of an options object handed to listOptionsToQueryString
MaxKeys == 3

(***************************************************************************)
(* JavaScript values.                                                      *)
(***************************************************************************)
Undefined == [t |-> "undefined"]
Null == [t |-> "null"]
NaN == [t |-> "NaN"]
Num(n) == [t |-> "number", n |-> n]
Bool(b) == [t |-> "boolean", b |-> b]
Str(s) == [t |-> "string", s |-> s]

\* ToBoolean: the test of `if (options[key])`, `nextPage ? ...` and
\* `while (res.nextPage)`
Truthy(v) ==
  CASE v.t = "number" -> v.n # 0
    [] v.t = "boolean" -> v.b
    [] v.t = "string" -> v.s # <<>>
    [] OTHER -> FALSE

\* value.toString() of a truthy option value
toString(v) ==
  CASE v.t = "number" -> <<ToString(v.n)>>
    [] v.t = "boolean" -> <<IF v.b THEN "true" ELSE "false">>
    [] OTHER -> v.s

\* Number(header) for a non-empty header string: the numeral's value, NaN
\* for a string that is no numeral
NumberOrZero(s) ==
  IF Len(s) = 1 /\ \E n \in 0..MaxPageNo : ToString(n) = s[1]
  THEN Num(CHOOSE n \in 0..MaxPageNo : ToString(n) = s[1])
  ELSE Num(0)
Number(s) ==
  IF Len(s) = 1 /\ \E n \in 0..MaxPageNo : ToString(n) = s[1]
  THEN Num(CHOOSE n \in 0..MaxPageNo : ToString(n) = s[1])
  ELSE NaN

(***************************************************************************)
(* ListOptions: an object is the sequence of its <<key, value>> entries in *)
(* iteration order.                                                        *)
(***************************************************************************)
HasKey(o, k) == \E i \in 1..Len(o) : o[i][1] = k
Get(o, k) ==
  IF HasKey(o, k) THEN o[CHOOSE i \in 1..Len(o) : o[i][1] = k][2] ELSE Undefined
\* o[k] = v: an existing key keeps its place, a new key goes last
SetAlone(o, k, v) == <<<<k, v>>>>
Set(o, k, v) ==
  IF HasKey(o, k)
  THEN [i \in 1..Len(o) |-> IF o[i][1] = k THEN <<k, v>> ELSE o[i]]
  ELSE Append(o, <<k, v>>)

\* application/x-www-form-urlencoded serialisation of one token
FormEncodeToken(c) ==
  CASE c = " " -> "+"
    [] c = ":" -> "%3A"
    [] c = "&" -> "%26"
    [] c = "=" -> "%3D"
    [] c = "+" -> "%2B"
    [] c = "?" -> "%3F"
    [] c = "/" -> "%2F"
    [] OTHER -> c
FormEncode(s) == [i \in 1..Len(s) |-> FormEncodeToken(s[i])]

\* the entries listOptionsToQueryString appends to the URLSearchParams
RECURSIVE SearchParams(_)
SearchParamsPresent(o) ==
  IF o = <<>> THEN <<>>
  ELSE IF Head(o)[2].t \notin {"undefined", "null", "NaN"}
       THEN <<<<Head(o)[1], toString(Head(o)[2])>>>> \o SearchParams(Tail(o))
       ELSE SearchParams(Tail(o))
SearchParams(o) ==
  IF o = <<>> THEN <<>>
  ELSE IF Truthy(Head(o)[2])
       THEN <<<<Head(o)[1], toString(Head(o)[2])>>>> \o SearchParams(Tail(o))
       ELSE SearchParams(Tail(o))

\* URLSearchParams.toString()
RECURSIVE SearchToString(_)
SearchToString(ps) ==
  IF ps = <<>> THEN <<>>
  ELSE FormEncode(<<Head(ps)[1]>>) \o <<"=">> \o FormEncode(Head(ps)[2])
       \o (IF Len(ps) > 1 THEN <<"&">> ELSE <<>>) \o SearchToString(Tail(ps))

listOptionsToQueryString(options) ==
  LET query == SearchToString(SearchParams(options))
  IN IF query = <<>> THEN <<>> ELSE <<"?">> \o query

(***************************************************************************)
(* The integration registry and the target URLs.                           *)
(***************************************************************************)
GitLabCom ==
  [host |-> "gitlab.com",
   baseUrl |-> <<"https://gitlab.com">>,
   apiBaseUrl |-> <<"https://gitlab.com", "/", "api", "/", "v4">>]
SelfManaged ==
  [host |-> "gitlab.example.com",
   baseUrl |-> <<"https://gitlab.example.com">>,
   apiBaseUrl |-> <<"https://gitlab.example.com", "/", "api", "/", "v4">>]
Integrations == {GitLabCom, SelfManaged}

\* integrations.gitlab.byUrl(url): the integration of the URL's host
byUrl(url) ==
  IF \E i \in Integrations : i.baseUrl[1] = url[1]
  THEN CHOOSE i \in Integrations : i.baseUrl[1] = url[1]
  ELSE Undefined

\* parseGroupUrl(url, baseUrl): the group path below the base URL, null for
\* the URL of the whole instance
parseGroupUrl(url, baseUrl) ==
  LET path == SubSeq(url, Len(baseUrl) + 1, Len(url))
  IN IF path = <<>> \/ path = <<"/">> THEN Null ELSE Str(Tail(path))

\* encodeURIComponent
encodeURIComponent(s) == [i \in 1..Len(s) |-> FormEncodeToken(s[i])]

InputError(url) ==
  [name |-> "InputError",
   message |-> <<"No GitLab integration found for URL ">> \o url]
UnsupportedError ==
  [name |-> "Error",
   message |-> <<"Getting all GitLab instance users is only supported for self-managed hosts.">>]
TypeError == [name |-> "TypeError", message |-> <<"Cannot read properties of undefined">>]
FetchError == [name |-> "FetchError", message |-> <<"request failed">>]
SyntaxError == [name |-> "SyntaxError", message |-> <<"Unexpected token in JSON">>]

Throw(e) == [kind |-> "throw", error |-> e]
Walk(endpoint, options) ==
  [kind |-> "walk", endpoint |-> endpoint, options |-> options]

\* ...(v && {key: w}): the spread of a falsy value adds nothing
SpreadIf(v, key, w) == IF Truthy(v) THEN <<<<key, w>>>> ELSE <<>>

getIntegrationDefault(url) ==
  [kind |-> "ok",
   integration |-> IF byUrl(url) = Undefined THEN GitLabCom ELSE byUrl(url)]
getIntegration(url) ==
  IF byUrl(url) = Undefined THEN Throw(InputError(url))
  ELSE [kind |-> "ok", integration |-> byUrl(url)]

listProjectsGlobal(targetUrl, options) ==
  LET got == getIntegration(targetUrl)
  IN IF got.kind = "throw" THEN got
     ELSE Walk(<<"/", "projects">>,
               <<<<"per_page", Num(100)>>>>
                 \o SpreadIf(options.last_activity_after, "last_activity_after",
                             options.last_activity_after))
listProjects(targetUrl, options) ==
  LET got == getIntegration(targetUrl)
      integration == got.integration
      groupFullPath == parseGroupUrl(targetUrl, integration.baseUrl)
  IN IF got.kind = "throw" THEN got
     ELSE IF Truthy(groupFullPath)
     THEN Walk(integration.apiBaseUrl \o <<"/", "groups", "/">>
                 \o encodeURIComponent(groupFullPath.s) \o <<"/", "projects">>,
               <<<<"per_page", Num(100)>>, <<"include_subgroups", Bool(TRUE)>>>>
                 \o SpreadIf(options.last_activity_after, "last_activity_after",
                             options.last_activity_after))
     ELSE Walk(<<"/", "projects">>,
               <<<<"per_page", Num(100)>>>>
                 \o SpreadIf(options.last_activity_after, "last_activity_after",
                             options.last_activity_after))

listGroups(targetUrl) ==
  LET got == getIntegration(targetUrl)
  IN IF got.kind = "throw" THEN got
     ELSE Walk(got.integration.apiBaseUrl \o <<"/", "groups">>,
               <<<<"per_page", Num(100)>>>>)

listUsersSelfManagedOnly(targetUrl, options) ==
  LET got == getIntegration(targetUrl)
      integration == got.integration
      groupFullPath == parseGroupUrl(targetUrl, integration.baseUrl)
      inherited ==
        IF options.inherited.t \in {"undefined", "null"} THEN Bool(TRUE)
        ELSE options.inherited
  IN IF got.kind = "throw" THEN got
     ELSE IF Truthy(groupFullPath)
     THEN Walk(<<"/", "groups", "/">> \o encodeURIComponent(groupFullPath.s)
                 \o <<"/", "members">>
                 \o (IF Truthy(inherited) THEN <<"/", "all">> ELSE <<>>),
               <<<<"per_page", Num(100)>>>>
                 \o SpreadIf(options.blocked, "blocked", Bool(TRUE)))
     ELSE IF integration.host = "gitlab.com"
     THEN Throw(UnsupportedError)
     ELSE Walk(<<"/", "users">>,
               <<<<"active", Bool(TRUE)>>, <<"per_page", Num(100)>>>>)
listUsers(targetUrl, options) ==
  LET got == getIntegration(targetUrl)
      integration == got.integration
      groupFullPath == parseGroupUrl(targetUrl, integration.baseUrl)
      inherited ==
        IF options.inherited.t \in {"undefined", "null"} THEN Bool(TRUE)
        ELSE options.inherited
  IN IF got.kind = "throw" THEN got
     ELSE IF Truthy(groupFullPath)
     THEN Walk(<<"/", "groups", "/">> \o encodeURIComponent(groupFullPath.s)
                 \o <<"/", "members">>
                 \o (IF Truthy(inherited) THEN <<"/", "all">> ELSE <<>>),
               <<<<"per_page", Num(100)>>>>
                 \o SpreadIf(options.blocked, "blocked", Bool(TRUE)))
     ELSE IF integration.host # "gitlab.com"
     THEN Throw(UnsupportedError)
     ELSE Walk(<<"/", "users">>,
               <<<<"active", Bool(TRUE)>>, <<"per_page", Num(100)>>>>)

\* one call of a listing operation
Listing(call) ==
  CASE call.op = "listProjects" -> listProjects(call.targetUrl, call.options)
    [] call.op = "listGroups" -> listGroups(call.targetUrl)
    [] OTHER -> listUsers(call.targetUrl, call.options)

(***************************************************************************)
(* request and pagedRequest.  The transport answers a request with a       *)
(* network error or with an HTTP response: status, status text, the        *)
(* x-next-page header (null when absent) and a body (the decoded items, or *)
(* a body that is not JSON).                                               *)
(***************************************************************************)
NetworkError == [kind |-> "neterr"]
HttpResponse(status, statusText, header, body) ==
  [kind |-> "http", status |-> status, statusText |-> statusText,
   header |-> header, body |-> body]
JsonBody(items) == [json |-> TRUE, items |-> items]
BadBody == [json |-> FALSE]

\* new URL(s).toString(): an origin without a path gets the path "/"
href(s) == IF Len(s) = 1 THEN s \o <<"/">> ELSE s

\* Response.ok of node-fetch
okBelow500(response) == response.status >= 200 /\ response.status < 500
ok(response) == response.status >= 200 /\ response.status < 300

RequestError(url, response) ==
  [name |-> "Error",
   message |-> <<"Unexpected response when fetching ">> \o url
                 \o <<". Expected 200 but got ", ToString(response.status),
                      " - ", response.statusText>>]

\* request up to the call of fetch: the URL it asks the transport for;
\* this.config is not a member the class declares or sets, and reading
\* apiBaseUrl of undefined throws
requestStart(config, endpoint) ==
  IF config = Undefined THEN Throw(TypeError)
  ELSE [kind |-> "sent", url |-> href(config.apiBaseUrl \o endpoint)]

\* request from the transport's answer on: lines 185-193
requestEnd(url, answer) ==
  IF answer.kind = "neterr" THEN Throw(FetchError)
  ELSE IF ~ok(answer) THEN Throw(RequestError(url, answer))
  ELSE [kind |-> "response", response |-> answer]

\* request as a whole, with the URL it asked the transport for
request(cfg, endpoint, answer) ==
  LET started == requestStart(cfg, endpoint)
  IN IF started.kind = "throw"
     THEN [requested |-> <<>>, outcome |-> started]
     ELSE [requested |-> started.url, outcome |-> requestEnd(started.url, answer)]

\* pagedRequest up to the call of fetch
pagedRequestStart(config, endpoint, options) ==
  requestStart(config, endpoint \o listOptionsToQueryString(options))

\* pagedRequest from the transport's answer on
pagedRequestEnd(url, answer) ==
  LET got == requestEnd(url, answer)
      response == got.response
      nextPage == response.header
  IN IF got.kind = "throw" THEN got
     ELSE IF ~response.body.json THEN Throw(SyntaxError)
     ELSE [kind |-> "page", items |-> response.body.items,
           nextPage |-> IF Truthy(nextPage) THEN Number(nextPage.s) ELSE Null]

(***************************************************************************)
(* The walks.  Each walk is one async generator made by paginated; the     *)
(* options objects live in a heap, and a walk holds a reference to its own.*)
(***************************************************************************)
Walks == {1, 2}

VARIABLES
  config,     \* this.config of the client: undefined or an integration's
  heap,       \* the options objects allocated so far
  pc,         \* per walk: the state of the call and of its generator
  optRef,     \* per walk: the heap reference paginated got as `options`
  endpoint,   \* per walk: the endpoint its request closure captured
  res,        \* per walk: the local `res`
  idx,        \* per walk: how many items of res.items have been yielded
  pending,    \* per walk: next() calls of the consumer not yet answered
  inflight,   \* per walk: the calls of the request function not yet settled
  fetches,    \* per walk: every call of the request function, in order
  results,    \* per walk: what every settled call produced, in order
  events,     \* per walk: what the consumer's next() calls were answered
  thrown,     \* per walk: the error the listing call itself threw
  post,       \* per walk: next() calls made after the generator completed
  called,     \* per walk: the listing call that started it
  arg,        \* the arguments of a call of one of the plain functions
  ret         \* what that call returned or threw

vars ==
  <<config, heap, pc, optRef, endpoint, res, idx, pending, inflight, fetches,
    results, events, thrown, post, called, arg, ret>>

NoRes == [kind |-> "none"]
NoCall == [op |-> "none"]
Idle == [fn |-> "none"]
NoError == [name |-> "none"]
Item(v) == [kind |-> "item", value |-> v]
Done == [kind |-> "done"]
Times(n, e) == [i \in 1..n |-> e]

\* line 247: the value stored in options.page
NextCursorKept(r) == Undefined
NextCursor(r) == r.nextPage
\* line 251: the loop condition
LoopAgainIfReported(r) == r.nextPage.t \notin {"undefined", "null"}
LoopAgainAlways(r) == TRUE
LoopAgain(r) == Truthy(r.nextPage)
\* lines 248-250: the for-of loop over res.items, k items yielded so far
PageDoneAfterOne(r, k) == k >= 1 \/ k >= Len(r.items)
PageDone(r, k) == k >= Len(r.items)
YieldedItemReversed(r, k) == r.items[Len(r.items) - k]
YieldedItem(r, k) == r.items[k + 1]
\* line 246: a rejection of the awaited promise is thrown out of the
\* generator as it is
RethrownAsGeneric(e) == FetchError
Rethrown(e) == e

\* the object a listing call's options literal evaluates to
NewObjectShared(h) == 1
NewObject(h) == Len(h) + 1

TotalFetches == Len(fetches[1]) + Len(fetches[2])

\* the state of the walks before any listing call
NoWalks ==
  /\ heap = <<>>
  /\ pc = [w \in Walks |-> "none"]
  /\ optRef = [w \in Walks |-> 0]
  /\ endpoint = [w \in Walks |-> <<>>]
  /\ res = [w \in Walks |-> NoRes]
  /\ idx = [w \in Walks |-> 0]
  /\ pending = [w \in Walks |-> 0]
  /\ inflight = [w \in Walks |-> <<>>]
  /\ fetches = [w \in Walks |-> <<>>]
  /\ results = [w \in Walks |-> <<>>]
  /\ events = [w \in Walks |-> <<>>]
  /\ thrown = [w \in Walks |-> NoError]
  /\ post = [w \in Walks |-> 0]
  /\ called = [w \in Walks |-> NoCall]

Init ==
  /\ config \in {Undefined, SelfManaged}
  /\ NoWalks
  /\ arg = Idle
  /\ ret = Idle

(***************************************************************************)
(* The inputs.                                                             *)
(***************************************************************************)
NoOptions ==
  [last_activity_after |-> Undefined, inherited |-> Undefined,
   blocked |-> Undefined]
Call(op, targetUrl, options) ==
  [op |-> op, targetUrl |-> targetUrl, options |-> options]
GroupUrl == <<"https://gitlab.com", "/", "grp", "/", "sub">>
InstanceUrl == <<"https://gitlab.com">>
SelfManagedUrl == <<"https://gitlab.example.com", "/">>
UnknownUrl == <<"https://elsewhere.example.org", "/", "grp">>

Calls ==
  { Call("listProjects", GroupUrl,
         [NoOptions EXCEPT !.last_activity_after = Str(<<"2021-01-01T00", ":", "00">>)]),
    Call("listGroups", InstanceUrl, NoOptions),
    Call("listUsers", InstanceUrl, NoOptions),
    Call("listGroups", UnknownUrl, NoOptions) }
CallsLive == {Call("listGroups", InstanceUrl, NoOptions)}
CallsTwo ==
  { Call("listProjects", SelfManagedUrl, NoOptions),
    Call("listUsers", GroupUrl, [NoOptions EXCEPT !.blocked = Bool(TRUE)]),
    Call("listUsers", SelfManagedUrl, NoOptions) }

\* the items of the k-th page a walk receives: n distinct records
PageItems(k, n) == [i \in 1..n |-> <<k, i>>]

Headers ==
  {Null, Str(<<>>), Str(<<"abc">>)} \cup {Str(<<ToString(n)>>) : n \in 0..MaxPageNo}

StatusText(status) ==
  CASE status = 200 -> "OK"
    [] status = 201 -> "Created"
    [] status = 204 -> "No Content"
    [] status = 401 -> "Unauthorized"
    [] status = 404 -> "Not Found"
    [] OTHER -> "Internal Server Error"

\* the answers of the transport to the k-th request of a walk
Answers(k) ==
  {NetworkError}
    \cup {HttpResponse(st, StatusText(st), Null, BadBody) : st \in {200, 404, 500}}
    \cup {HttpResponse(st, StatusText(st), h, JsonBody(PageItems(k, n))) :
            st \in {200, 201}, h \in Headers, n \in 0..MaxItems}

(***************************************************************************)
(* The steps of a walk.                                                    *)
(***************************************************************************)
\* line 246: request(options) is called and the generator awaits its
\* promise; fl are the calls still outstanding
CallRequest(w, q, r, k, h, fl, budget) ==
  /\ Len(fetches[w]) < MaxFetch
  /\ TotalFetches < budget
  /\ pc' = [pc EXCEPT ![w] = "awaiting"]
  /\ fetches' = [fetches EXCEPT ![w] =
       Append(@, [endpoint |-> endpoint[w], options |-> h[optRef[w]]])]
  /\ inflight' = [inflight EXCEPT ![w] =
       Append(fl, pagedRequestStart(config, endpoint[w], h[optRef[w]]))]
  /\ pending' = [pending EXCEPT ![w] = q]
  /\ res' = [res EXCEPT ![w] = r]
  /\ idx' = [idx EXCEPT ![w] = k]
  /\ heap' = h
  /\ UNCHANGED events

\* the generator runs on inside the loop body, after line 247, with q
\* next() calls to answer, k items of r yielded and the heap h
Continue(w, q, r, k, h, fl, budget) ==
  IF ~PageDone(r, k)
  THEN /\ pc' = [pc EXCEPT ![w] = "suspendedYield"]
       /\ events' = [events EXCEPT ![w] = Append(@, Item(YieldedItem(r, k)))]
       /\ idx' = [idx EXCEPT ![w] = k + 1]
       /\ pending' = [pending EXCEPT ![w] = q - 1]
       /\ res' = [res EXCEPT ![w] = r]
       /\ heap' = h
       /\ inflight' = [inflight EXCEPT ![w] = fl]
       /\ UNCHANGED fetches
  ELSE IF LoopAgain(r)
  THEN CallRequest(w, q, r, k, h, fl, budget)
  ELSE /\ pc' = [pc EXCEPT ![w] = "completed"]
       /\ events' = [events EXCEPT ![w] = @ \o Times(q, Done)]
       /\ idx' = [idx EXCEPT ![w] = k]
       /\ pending' = [pending EXCEPT ![w] = 0]
       /\ res' = [res EXCEPT ![w] = r]
       /\ heap' = h
       /\ inflight' = [inflight EXCEPT ![w] = fl]
       /\ UNCHANGED fetches

\* a call of listProjects, listGroups or listUsers
ListCall(w, call) ==
  /\ pc[w] = "none"
  /\ LET l == Listing(call)
         ref == NewObject(heap)
     IN IF l.kind = "throw"
        THEN /\ pc' = [pc EXCEPT ![w] = "threw"]
             /\ thrown' = [thrown EXCEPT ![w] = l.error]
             /\ UNCHANGED <<heap, optRef, endpoint>>
        ELSE /\ pc' = [pc EXCEPT ![w] = "suspendedStart"]
             /\ heap' = IF ref > Len(heap) THEN Append(heap, l.options) ELSE heap
             /\ optRef' = [optRef EXCEPT ![w] = ref]
             /\ endpoint' = [endpoint EXCEPT ![w] = l.endpoint]
             /\ UNCHANGED thrown
  /\ called' = [called EXCEPT ![w] = call]
  /\ UNCHANGED <<config, res, idx, pending, inflight, fetches, results, events, post,
                 arg, ret>>

\* the consumer calls next() on a generator that has not started
AdvanceStart(w, budget) ==
  /\ pc[w] = "suspendedStart"
  /\ CallRequest(w, 1, res[w], 0, heap, inflight[w], budget)
  /\ UNCHANGED <<config, optRef, endpoint, results, thrown, post, called, arg, ret>>

\* the consumer calls next() on a generator suspended at the yield
AdvanceYield(w, budget) ==
  /\ pc[w] = "suspendedYield"
  /\ pending[w] = 0
  /\ Continue(w, 1, res[w], idx[w], heap, inflight[w], budget)
  /\ UNCHANGED <<config, optRef, endpoint, results, thrown, post, called, arg, ret>>

\* the consumer calls next() while the generator runs: the call is queued
AdvanceQueued(w) ==
  /\ pc[w] = "awaiting" \/ (pc[w] = "suspendedYield" /\ pending[w] > 0)
  /\ pending[w] < MaxPending
  /\ pending' = [pending EXCEPT ![w] = @ + 1]
  /\ UNCHANGED <<config, heap, pc, optRef, endpoint, res, idx, inflight, fetches,
                 results, events, thrown, post, called, arg, ret>>

\* the consumer calls next() on a generator that has completed
AdvanceCompletedRestarts(w) ==
  /\ pc[w] = "completed"
  /\ post[w] < MaxPost
  /\ post' = [post EXCEPT ![w] = @ + 1]
  /\ CallRequest(w, 1, NoRes, 0, heap, <<>>, MaxFetchTwo)
  /\ UNCHANGED <<config, optRef, endpoint, results, thrown, called, arg, ret>>
AdvanceCompleted(w) ==
  /\ pc[w] = "completed"
  /\ post[w] < MaxPost
  /\ post' = [post EXCEPT ![w] = @ + 1]
  /\ events' = [events EXCEPT ![w] = Append(@, Done)]
  /\ UNCHANGED <<config, heap, pc, optRef, endpoint, res, idx, pending, inflight,
                 fetches, results, thrown, called, arg, ret>>

\* a generator that yielded with next() calls still queued is resumed
Resume(w, budget) ==
  /\ pc[w] = "suspendedYield"
  /\ pending[w] > 0
  /\ Continue(w, pending[w], res[w], idx[w], heap, inflight[w], budget)
  /\ UNCHANGED <<config, optRef, endpoint, results, thrown, post, called, arg, ret>>

\* the awaited promise settles with result: lines 246-247 and on
Settle(w, result, budget) ==
  IF result.kind = "throw"
  THEN /\ pc' = [pc EXCEPT ![w] = "completed"]
       /\ events' = [events EXCEPT ![w] =
            Append(@, Throw(Rethrown(result.error))) \o Times(pending[w] - 1, Done)]
       /\ pending' = [pending EXCEPT ![w] = 0]
       /\ results' = [results EXCEPT ![w] = Append(@, result)]
       /\ inflight' = [inflight EXCEPT ![w] = Tail(@)]
       /\ UNCHANGED <<heap, res, idx, fetches>>
  ELSE /\ results' = [results EXCEPT ![w] = Append(@, result)]
       /\ Continue(w, pending[w], result, 0,
                   [heap EXCEPT ![optRef[w]] = Set(@, "page", NextCursor(result))],
                   Tail(inflight[w]), budget)

\* the transport answers the request of the walk's outstanding call
TransportAnswers(w, answer, budget) ==
  /\ pc[w] = "awaiting"
  /\ inflight[w] # <<>>
  /\ Head(inflight[w]).kind = "sent"
  /\ Settle(w, pagedRequestEnd(Head(inflight[w]).url, answer), budget)
  /\ UNCHANGED <<config, optRef, endpoint, thrown, post, called, arg, ret>>

\* the outstanding call threw before it reached the transport
RequestThrew(w, budget) ==
  /\ pc[w] = "awaiting"
  /\ inflight[w] # <<>>
  /\ Head(inflight[w]).kind = "throw"
  /\ Settle(w, Head(inflight[w]), budget)
  /\ UNCHANGED <<config, optRef, endpoint, thrown, post, called, arg, ret>>

\* the answers of the transport when two walks interleave: a failure, a
\* last page or a page that names page 2
AnswersTwo(k) ==
  {NetworkError}
    \cup {HttpResponse(200, StatusText(200), h, JsonBody(PageItems(k, n))) :
            h \in {Null, Str(<<"2">>)}, n \in 0..MaxItemsTwo}

\* a step of the first walk, whose consumer may call next() at any time
Step(calls) ==
  \/ \E call \in calls : ListCall(1, call)
  \/ AdvanceStart(1, MaxFetch)
  \/ AdvanceYield(1, MaxFetch)
  \/ AdvanceQueued(1)
  \/ AdvanceCompleted(1)
  \/ Resume(1, MaxFetch)
  \/ \E answer \in Answers(Len(results[1]) + 1) :
       TransportAnswers(1, answer, MaxFetch)
  \/ RequestThrew(1, MaxFetch)

\* one walk
Next == Step(Calls)
Spec == Init /\ [][Next]_vars

\* one walk whose consumer keeps calling next() and whose fetches all settle
NextLive == Step(CallsLive)
SpecLive ==
  /\ Init
  /\ [][NextLive]_vars
  /\ WF_vars(AdvanceStart(1, MaxFetch))
  /\ WF_vars(AdvanceYield(1, MaxFetch))
  /\ WF_vars(Resume(1, MaxFetch))
  /\ WF_vars(\E answer \in Answers(Len(results[1]) + 1) :
               TransportAnswers(1, answer, MaxFetch))
  /\ WF_vars(RequestThrew(1, MaxFetch))

\* two walks whose steps interleave; each consumer awaits the answer of a
\* next() call before it calls next() again
NextTwo ==
  \E w \in Walks :
    \/ \E call \in CallsTwo : ListCall(w, call)
    \/ AdvanceStart(w, MaxFetchTwo)
    \/ AdvanceYield(w, MaxFetchTwo)
    \/ \E answer \in AnswersTwo(Len(results[w]) + 1) :
         TransportAnswers(w, answer, MaxFetchTwo)
    \/ RequestThrew(w, MaxFetchTwo)
SpecTwo == Init /\ [][NextTwo]_vars

\* one walk of every listing operation on every kind of target URL, with a
\* client whose this.config is undefined or the configuration of an
\* integration
SelfManagedGroupUrl == <<"https://gitlab.example.com", "/", "team">>
TargetUrls ==
  {GroupUrl, InstanceUrl, SelfManagedUrl, SelfManagedGroupUrl, UnknownUrl}
CallsListing ==
  {Call("listProjects", u, o) :
     u \in TargetUrls,
     o \in {NoOptions,
            [NoOptions EXCEPT !.last_activity_after = Str(<<"2021-01-01T00", ":", "00">>)]}}
    \cup {Call("listGroups", u, NoOptions) : u \in TargetUrls}
    \cup {Call("listUsers", u, o) :
            u \in TargetUrls,
            o \in {NoOptions, [NoOptions EXCEPT !.blocked = Bool(TRUE)],
                   [NoOptions EXCEPT !.inherited = Bool(FALSE)]}}

InitListing ==
  /\ config \in {Undefined} \cup Integrations
  /\ NoWalks
  /\ arg = Idle
  /\ ret = Idle

NextListing ==
  \/ \E call \in CallsListing : ListCall(1, call)
  \/ AdvanceStart(1, MaxFetch)
  \/ AdvanceYield(1, MaxFetch)
  \/ \E answer \in AnswersTwo(Len(results[1]) + 1) :
       TransportAnswers(1, answer, MaxFetch)
  \/ RequestThrew(1, MaxFetch)
SpecListing == InitListing /\ [][NextListing]_vars

\* a walk, the next() calls on it after it has ended, and the same listing
\* call made again once it has ended
CallsAgain ==
  { Call("listGroups", SelfManagedUrl, NoOptions),
    Call("listUsers", GroupUrl, NoOptions) }
NextAgain ==
  \E w \in Walks :
    \/ \E call \in CallsAgain :
         /\ w = 2 => (pc[1] = "completed" /\ called[1] = call)
         /\ ListCall(w, call)
    \/ AdvanceStart(w, MaxFetchTwo)
    \/ AdvanceYield(w, MaxFetchTwo)
    \/ AdvanceCompleted(w)
    \/ \E answer \in AnswersTwo(Len(results[w]) + 1) :
         TransportAnswers(w, answer, MaxFetchTwo)
    \/ RequestThrew(w, MaxFetchTwo)
SpecAgain == Init /\ [][NextAgain]_vars

\* a walk over pagedRequest whose first request the transport answers with
\* a given response, and whose later requests it answers with a last page
AnswersPaged ==
  {HttpResponse(st, StatusText(st), h, JsonBody(PageItems(1, n))) :
     st \in {200, 201}, h \in Headers, n \in 0..MaxItems}
LastAnswer == HttpResponse(200, StatusText(200), Null, JsonBody(PageItems(2, 1)))

InitPaged ==
  /\ config \in {Undefined, SelfManaged}
  /\ NoWalks
  /\ arg \in {[fn |-> "transport", answer |-> a] : a \in AnswersPaged}
  /\ ret = Idle

NextPaged ==
  \/ \E call \in CallsLive : ListCall(1, call)
  \/ AdvanceStart(1, MaxFetch)
  \/ AdvanceYield(1, MaxFetch)
  \/ TransportAnswers(1, IF results[1] = <<>> THEN arg.answer ELSE LastAnswer, MaxFetch)
  \/ RequestThrew(1, MaxFetch)
SpecPaged == InitPaged /\ [][NextPaged]_vars

(***************************************************************************)
(* The plain functions, applied to inputs drawn from bounded sets.         *)
(***************************************************************************)
OptionKeys == {"per_page", "page", "blocked", "search"}
OptionValues(k) ==
  CASE k = "per_page" -> {Undefined, Num(0), Num(100)}
    [] k = "page" -> {Undefined, Null, NaN, Num(0), Num(2)}
    [] k = "blocked" -> {Undefined, Bool(FALSE), Bool(TRUE)}
    [] OTHER -> {Str(<<>>), Str(<<"a", " ", "b", "&", "c">>)}
OptionEntries == UNION {{<<k, v>> : v \in OptionValues(k)} : k \in OptionKeys}
\* the objects of up to MaxKeys entries: every key at most once, each with
\* a value of its type
OptionObjects ==
  UNION { {o \in [1..n -> OptionEntries] :
             \A i, j \in 1..n : i # j => o[i][1] # o[j][1]} :
          n \in 0..MaxKeys }

InitQS ==
  /\ config = Undefined
  /\ NoWalks
  /\ arg \in {[fn |-> "listOptionsToQueryString", options |-> o] : o \in OptionObjects}
  /\ ret = Idle

Serialize ==
  /\ arg.fn = "listOptionsToQueryString"
  /\ ret = Idle
  /\ ret' = [value |-> listOptionsToQueryString(arg.options)]
  /\ UNCHANGED <<config, heap, pc, optRef, endpoint, res, idx, pending, inflight,
                 fetches, results, events, thrown, post, called, arg>>

NextQS == Serialize
SpecQS == InitQS /\ [][NextQS]_vars

Statuses == {200, 201, 204, 401, 404, 500}
Endpoints ==
  { <<>>, <<"/", "projects">>, <<"/", "users", "?", "per_page", "=", "100">>,
    SelfManaged.apiBaseUrl \o <<"/", "groups">> }
BareHost ==
  [host |-> "gitlab.internal", baseUrl |-> <<"https://gitlab.internal">>,
   apiBaseUrl |-> <<"https://gitlab.internal">>]

InitReq ==
  /\ config \in {Undefined, GitLabCom, SelfManaged, BareHost}
  /\ NoWalks
  /\ arg \in {[fn |-> "request", endpoint |-> e, answer |-> a] :
                e \in Endpoints,
                a \in {NetworkError}
                        \cup {HttpResponse(st, StatusText(st), Null, JsonBody(<<>>)) :
                                st \in Statuses}}
  /\ ret = Idle

Request ==
  /\ arg.fn = "request"
  /\ ret = Idle
  /\ ret' = request(config, arg.endpoint, arg.answer)
  /\ UNCHANGED <<config, heap, pc, optRef, endpoint, res, idx, pending, inflight,
                 fetches, results, events, thrown, post, called, arg>>

NextReq == Request
SpecReq == InitReq /\ [][NextReq]_vars

(***************************************************************************)
(* Properties of a walk.                                                   *)
(***************************************************************************)
Last(s) == s[Len(s)]
IsPage(r) == r.kind = "page"
NoNext(r) == r.nextPage.t \in {"null", "undefined"}

\* the items of the pages among rs, in order
RECURSIVE ItemsOf(_)
ItemsOf(rs) ==
  IF rs = <<>> THEN <<>>
  ELSE (IF IsPage(Head(rs)) THEN Head(rs).items ELSE <<>>) \o ItemsOf(Tail(rs))

\* the items the consumer has received, in order
Yielded(w) ==
  LET es == SelectSeq(events[w], LAMBDA e : e.kind = "item")
  IN [i \in 1..Len(es) |-> es[i].value]

\* page k reports next page k + 1, the last page reports none
IsChain(rs) ==
  /\ rs # <<>>
  /\ \A k \in 1..Len(rs) :
       /\ IsPage(rs[k])
       /\ IF k < Len(rs) THEN rs[k].nextPage = Num(k + 1) ELSE NoNext(rs[k])

\* C1: a walk over a chain of N pages (page k names page k + 1, page N names
\* none) whose consumer advances to the end has yielded exactly the items of
\* the N pages, in page order and in-page order, followed by the end of the
\* sequence, and has called the fetch function exactly N times.
C1_ChainYieldsConcatenation ==
  \A w \in Walks :
    (pc[w] = "completed" /\ IsChain(results[w])) =>
      /\ Yielded(w) = ItemsOf(results[w])
      /\ Len(fetches[w]) = Len(results[w])
      /\ \A i \in 1..Len(events[w]) :
           events[w][i].kind = (IF i <= Len(ItemsOf(results[w])) THEN "item" ELSE "done")

C1_Witness ==
  /\ pc[1] = "completed"
  /\ IsChain(results[1])
  /\ Len(results[1]) >= 2
  /\ Len(results[1][1].items) >= 2
  /\ Len(results[1][2].items) >= 2

\* C2: when the k-th call of the fetch function fails, the consumer has
\* received the items of pages 1..k-1 in order, then that same failure, then
\* nothing but the end of the sequence; the fetch function has been called
\* exactly k times and no call is outstanding.
C2_FailurePropagates ==
  \A w \in Walks :
    (results[w] # <<>> /\ Last(results[w]).kind = "throw") =>
      LET k == Len(results[w])
          before == ItemsOf(SubSeq(results[w], 1, k - 1))
          n == Len(before)
      IN /\ Len(fetches[w]) = k
         /\ inflight[w] = <<>>
         /\ pc[w] = "completed"
         /\ Len(events[w]) > n
         /\ \A i \in 1..n : events[w][i] = Item(before[i])
         /\ events[w][n + 1] = Throw(Last(results[w]).error)
         /\ \A i \in (n + 2)..Len(events[w]) : events[w][i] = Done

C2_Witness ==
  /\ Len(results[1]) = 2
  /\ results[1][2].kind = "throw"
  /\ results[1][2].error.name = "Error"
  /\ Len(results[1][1].items) >= 2
  /\ Len(events[1]) > 3

\* a response reports a next-page value: a number, 0 included
ReportsNext(r) == r.nextPage.t = "number"
\* a response reports a next-page number other than 0
ReportsNonZero(r) == r.nextPage.t = "number" /\ r.nextPage.n # 0

\* C3 as stated: a walk ends after a page only when that page reports no
\* next-page value, whatever the value is, 0 included.
C3_EndsOnlyWithoutNextPage ==
  \A w \in Walks :
    (pc[w] = "completed" /\ results[w] # <<>> /\ IsPage(Last(results[w]))) =>
      ~ReportsNext(Last(results[w]))

\* C3 amended: a walk ends after a page exactly when that page reports no
\* next page or a next-page value that is not a number other than 0: every
\* page that was followed by another fetch reported a number other than 0,
\* a page that reports one is never the last before the end of the walk, and
\* after a page that reports none or 0 no further fetch is issued.
C3_EndsOnFalsyNextPage ==
  \A w \in Walks :
    /\ \A i \in 1..Len(results[w]) :
         i < Len(fetches[w]) => (IsPage(results[w][i]) /\ ReportsNonZero(results[w][i]))
    /\ (pc[w] = "completed" /\ results[w] # <<>> /\ IsPage(Last(results[w]))) =>
         ~ReportsNonZero(Last(results[w]))
    /\ (results[w] # <<>> /\ IsPage(Last(results[w]))
          /\ ~ReportsNonZero(Last(results[w]))) =>
         (Len(fetches[w]) = Len(results[w]) /\ inflight[w] = <<>>)

C3_Witness ==
  /\ pc[1] = "completed"
  /\ Len(results[1]) = 2
  /\ IsPage(results[1][1])
  /\ IsPage(results[1][2])
  /\ results[1][2].nextPage = Num(0)
  /\ results[1][2].items # <<>>

\* the page parameter of the query string a fetch sends, if any
PageParams(f) ==
  SelectSeq(SearchParams(f.options), LAMBDA e : e[1] = "page")

\* C4: in a walk started by a listing operation the first fetch carries no
\* page cursor, and every later fetch carries, in its options and in its
\* query string, exactly the next-page value of the response before it.
C4_CursorFollowsResponse ==
  \A w \in Walks :
    \A i \in 1..Len(fetches[w]) :
      IF i = 1
      THEN /\ ~HasKey(fetches[w][i].options, "page")
           /\ PageParams(fetches[w][i]) = <<>>
      ELSE /\ IsPage(results[w][i - 1])
           /\ Get(fetches[w][i].options, "page") = results[w][i - 1].nextPage
           /\ PageParams(fetches[w][i])
                = <<<<"page", <<ToString(results[w][i - 1].nextPage.n)>>>>>>

C4_Witness ==
  /\ Len(fetches[1]) = 2
  /\ results[1][1].nextPage = Num(2)
  /\ called[1].op = "listProjects"

\* how many items the pages before the last fetch carried
ItemsBeforeLastFetch(w) ==
  Len(ItemsOf(SubSeq(results[w], 1, Len(fetches[w]) - 1)))

\* C5: a walk is lazy and sequential: at most one call of the fetch function
\* is outstanding, a call is outstanding only while the generator awaits it
\* on behalf of a next() call of the consumer, and when a page is fetched
\* every item of the pages before it has been delivered; so with no next()
\* call waiting nothing is being fetched.
C5_LazySequential ==
  \A w \in Walks :
    /\ Len(inflight[w]) <= 1
    /\ Len(fetches[w]) = Len(results[w]) + Len(inflight[w])
    /\ inflight[w] # <<>> => (pending[w] >= 1 /\ pc[w] = "awaiting")
    /\ fetches[w] # <<>> => Len(Yielded(w)) >= ItemsBeforeLastFetch(w)
    /\ inflight[w] # <<>> => Len(Yielded(w)) = ItemsBeforeLastFetch(w)

\* the consumer has stopped after the last item of a page that names a next
\* page: that page is not being fetched
C5_Witness ==
  /\ pc[1] = "suspendedYield"
  /\ pending[1] = 0
  /\ Len(res[1].items) = 2
  /\ idx[1] = 2
  /\ ReportsNonZero(res[1])
  /\ Len(fetches[1]) = 1
  /\ inflight[1] = <<>>

\* the page a fetch asks for: the first page when it carries no cursor
PageNo(f) ==
  IF Get(f.options, "page").t = "number" THEN Get(f.options, "page").n ELSE 1

Increasing(w) ==
  \A i, j \in 1..Len(fetches[w]) : i < j => PageNo(fetches[w][i]) < PageNo(fetches[w][j])

\* C6 as stated: the pages the fetches of a walk ask for are strictly
\* increasing, so no page is fetched twice.
C6_CursorsIncrease == \A w \in Walks : Increasing(w)

\* C6 amended: the pages the fetches of a walk ask for are strictly
\* increasing, and no page is fetched twice, in every walk in which each
\* response names a page after the one it answers; the walk itself asks for
\* whatever page the response names.
C6_CursorsIncreaseWhenResponsesDo ==
  \A w \in Walks :
    (\A i \in 1..Len(results[w]) :
       (i < Len(fetches[w]) /\ IsPage(results[w][i])) =>
         (ReportsNext(results[w][i])
            /\ results[w][i].nextPage.n > PageNo(fetches[w][i])))
      => Increasing(w)

C6_Witness ==
  /\ Len(fetches[1]) = 2
  /\ results[1][1].nextPage = Num(2)
  /\ PageNo(fetches[1][2]) = 2

\* what a walk alone does with the responses it got
InitialOptions(w) == Listing(called[w]).options
ExpectedFetch(w, i) ==
  [endpoint |-> Listing(called[w]).endpoint,
   options |-> IF i = 1 THEN InitialOptions(w)
               ELSE Set(InitialOptions(w), "page", results[w][i - 1].nextPage)]
Pages(w) == SelectSeq(results[w], IsPage)
ExpectedOptions(w) ==
  IF Pages(w) = <<>> THEN InitialOptions(w)
  ELSE Set(InitialOptions(w), "page", Last(Pages(w)).nextPage)
ExpectedYielded(w) ==
  IF results[w] = <<>> THEN <<>>
  ELSE ItemsOf(SubSeq(results[w], 1, Len(results[w]) - 1))
         \o (IF IsPage(Last(results[w]))
             THEN SubSeq(Last(results[w]).items, 1, idx[w]) ELSE <<>>)
Started(w) == pc[w] \notin {"none", "threw"}

\* C7: two walks whose steps interleave share no options object, the
\* options of each walk are its initial options with the page cursor of its
\* own last response, and each walk issues the fetches and yields the items
\* that its own responses determine, as it would alone.
C7_WalksIndependent ==
  \A w \in Walks :
    Started(w) =>
      /\ \A v \in Walks \ {w} : Started(v) => optRef[v] # optRef[w]
      /\ heap[optRef[w]] = ExpectedOptions(w)
      /\ \A i \in 1..Len(fetches[w]) : fetches[w][i] = ExpectedFetch(w, i)
      /\ Yielded(w) = ExpectedYielded(w)

C7_Witness ==
  /\ Len(fetches[1]) = 2
  /\ Len(results[2]) = 1
  /\ IsPage(results[2][1])
  /\ results[2][1].nextPage = Null
  /\ Get(heap[optRef[1]], "page") = Num(2)
  /\ Get(heap[optRef[2]], "page") = Null
  /\ Yielded(1) # <<>>
  /\ Yielded(2) # <<>>

\* C8: with a consumer that keeps advancing and fetches that all settle,
\* once a fetched page reports no next page the walk ends, having yielded
\* the items of every page it fetched.
C8_WalkEnds ==
  [](( /\ results[1] # <<>>
       /\ IsPage(Last(results[1]))
       /\ NoNext(Last(results[1])) )
     => <>(pc[1] = "completed" /\ Yielded(1) = ItemsOf(results[1])))

C8_Witness ==
  /\ pc[1] = "completed"
  /\ Len(results[1]) = 2
  /\ IsPage(results[1][2])
  /\ NoNext(results[1][2])
  /\ Len(Yielded(1)) = 4

(***************************************************************************)
(* Properties of the plain functions.                                      *)
(***************************************************************************)
FormDecodeToken(c) ==
  CASE c = "+" -> " "
    [] c = "%3A" -> ":"
    [] c = "%26" -> "&"
    [] c = "%3D" -> "="
    [] c = "%2B" -> "+"
    [] c = "%3F" -> "?"
    [] c = "%2F" -> "/"
    [] OTHER -> c
FormDecode(s) == [i \in 1..Len(s) |-> FormDecodeToken(s[i])]

\* the pieces of s between the tokens sep
RECURSIVE SplitAt(_, _)
SplitAt(s, sep) ==
  IF \E i \in 1..Len(s) : s[i] = sep
  THEN LET i == CHOOSE i \in 1..Len(s) : s[i] = sep /\ \A j \in 1..(i - 1) : s[j] # sep
       IN <<SubSeq(s, 1, i - 1)>> \o SplitAt(SubSeq(s, i + 1, Len(s)), sep)
  ELSE <<s>>

\* the <<key, value>> entries a query string decodes to
ParseQuery(q) ==
  IF q = <<>> THEN <<>>
  ELSE LET parts == SplitAt(Tail(q), "&")
       IN [i \in 1..Len(parts) |->
             LET kv == SplitAt(parts[i], "=")
             IN <<FormDecode(kv[1]), FormDecode(kv[2])>>]

\* absent, 0, false and the empty string
Omitted(v) ==
  \/ v.t \in {"undefined", "null", "NaN"}
  \/ v = Num(0)
  \/ v = Bool(FALSE)
  \/ v = Str(<<>>)

ExampleOptions ==
  <<<<"per_page", Num(100)>>, <<"page", Undefined>>, <<"blocked", Bool(FALSE)>>>>

\* C9: the query string of an options object decodes to exactly the entries
\* whose value is not absent, 0, false or the empty string, each with its
\* stringified value, in the object's iteration order; it is empty when no
\* entry remains and begins with "?" otherwise; {per_page: 100, page:
\* undefined, blocked: false} gives "?per_page=100".
C9_QueryString ==
  (arg.fn = "listOptionsToQueryString" /\ ret # Idle) =>
    LET kept == SelectSeq(arg.options, LAMBDA e : ~Omitted(e[2]))
        q == ret.value
    IN /\ ParseQuery(q) = [i \in 1..Len(kept) |-> <<<<kept[i][1]>>, toString(kept[i][2])>>]
       /\ (kept = <<>>) <=> (q = <<>>)
       /\ kept # <<>> => Head(q) = "?"
       /\ \A i \in 2..Len(q) : q[i] # "?"
       /\ arg.options = ExampleOptions => q = <<"?", "per_page", "=", "100">>

C9_Witness ==
  /\ arg.fn = "listOptionsToQueryString"
  /\ arg.options = ExampleOptions
  /\ ret = [value |-> <<"?", "per_page", "=", "100">>]

Contains(s, sub) ==
  \E i \in 0..(Len(s) - Len(sub)) : SubSeq(s, i + 1, i + Len(sub)) = sub

FailsWithUrlAndStatus ==
  /\ ret.outcome.kind = "throw"
  /\ Contains(ret.outcome.error.message, ret.requested)
  /\ Contains(ret.outcome.error.message, <<ToString(arg.answer.status)>>)

Answered == arg.fn = "request" /\ ret # Idle /\ ret.requested # <<>> /\ arg.answer.kind = "http"

\* C10 as stated: a response whose status is not 200 makes request fail with
\* an error whose message contains the requested URL and the status.
C10_Non200Fails ==
  (Answered /\ arg.answer.status # 200) => FailsWithUrlAndStatus

\* C10 amended: a response whose status is not a success status (200 to 299)
\* makes request fail with an error whose message contains the requested URL
\* and the status, and request returns only responses with a success status.
C10_NonSuccessFails ==
  /\ (Answered /\ arg.answer.status \notin 200..299) => FailsWithUrlAndStatus
  /\ (arg.fn = "request" /\ ret # Idle /\ ret.outcome.kind = "response") =>
       (ret.outcome.response = arg.answer /\ arg.answer.status \in 200..299)

C10_Witness ==
  /\ Answered
  /\ arg.answer.status = 404
  /\ FailsWithUrlAndStatus
  /\ ret.requested = GitLabCom.apiBaseUrl \o <<"/", "projects">>

(***************************************************************************)
(* Properties of the listing operations.                                   *)
(***************************************************************************)
\* the registry has an entry for the target URL of the walk's listing call
Registered(w) == \E i \in Integrations : i.baseUrl[1] = called[w].targetUrl[1]
\* the integration the registry has for it
IntegrationOf(w) ==
  CHOOSE i \in Integrations : i.baseUrl[1] = called[w].targetUrl[1]
\* the group path of the target URL, <<>> for the URL of a whole instance
GroupOf(w) ==
  LET url == called[w].targetUrl
  IN IF Len(url) <= 2 THEN <<>> ELSE SubSeq(url, 3, Len(url))
\* the call of the walk threw e and nothing else happened
FailedAtCall(w, e) ==
  /\ pc[w] = "threw"
  /\ thrown[w] = e
  /\ optRef[w] = 0
  /\ fetches[w] = <<>>
  /\ inflight[w] = <<>>
  /\ events[w] = <<>>
\* the URLs of the walk's requests that reached the transport and are not
\* yet answered
Requested(w) ==
  LET sent == SelectSeq(inflight[w], LAMBDA c : c.kind = "sent")
  IN {sent[k].url : k \in 1..Len(sent)}
EndsWith(s, suffix) ==
  Len(s) >= Len(suffix) /\ SubSeq(s, Len(s) - Len(suffix) + 1, Len(s)) = suffix

\* C11: when the registry has no entry for the target URL, a call of
\* listProjects, listGroups or listUsers throws the configuration error
\* itself: no generator is made, so there is nothing to advance, and no
\* fetch and no request is ever issued for the call.
C11_ConfigErrorAtCall ==
  \A w \in Walks :
    (called[w] # NoCall /\ ~Registered(w)) =>
      /\ FailedAtCall(w, InputError(called[w].targetUrl))
      /\ thrown[w].name = "InputError"
      /\ Contains(thrown[w].message, called[w].targetUrl)

C11_Witness ==
  /\ called[1].op = "listProjects"
  /\ called[1].targetUrl = UnknownUrl
  /\ pc[1] = "threw"
  /\ thrown[1].name = "InputError"

\* the query string of an instance-wide users request, with the cursor of
\* the fetch
UsersQuery(f) ==
  <<"?", "active", "=", "true", "&", "per_page", "=", "100">>
    \o (IF Truthy(Get(f.options, "page"))
        THEN <<"&", "page", "=", ToString(Get(f.options, "page").n)>> ELSE <<>>)

\* the walk goes over the instance-wide users endpoint
WalksUsers(w) ==
  /\ Started(w)
  /\ thrown[w] = NoError
  /\ \A i \in 1..Len(fetches[w]) : fetches[w][i].endpoint = <<"/", "users">>
  /\ \A url \in Requested(w) :
       url = config.apiBaseUrl \o <<"/", "users">> \o UsersQuery(Last(fetches[w]))

\* a call of listUsers for the URL of a whole instance the registry knows
InstanceUsersCall(w) ==
  /\ called[w].op = "listUsers"
  /\ Registered(w)
  /\ GroupOf(w) = <<>>

C18_InstanceUsersOnSelfManaged ==
  \A w \in Walks :
    InstanceUsersCall(w) =>
      IF IntegrationOf(w).host # "gitlab.com"
      THEN WalksUsers(w)
      ELSE FailedAtCall(w, UnsupportedError)

\* the address of the group-projects endpoint of the walk's group
GroupProjects(w) ==
  IntegrationOf(w).apiBaseUrl \o <<"/", "groups", "/">>
    \o [i \in 1..Len(GroupOf(w)) |->
          IF GroupOf(w)[i] = "/" THEN "%2F" ELSE GroupOf(w)[i]]
    \o <<"/", "projects">>

WithoutPage(o) == SelectSeq(o, LAMBDA e : e[1] # "page")

\* C14: every fetch of a walk gets the initial options of the listing call
\* with nothing but the page key added or changed: per_page=100 and the
\* parameters of the endpoint are in the options and in the query string of
\* every fetch, in their order, and every fetch of the walk is for the same
\* endpoint.
C14_OnlyPageChanges ==
  \A w \in Walks :
    Started(w) =>
      /\ WithoutPage(heap[optRef[w]]) = InitialOptions(w)
      /\ \A i \in 1..Len(fetches[w]) :
           LET f == fetches[w][i]
           IN /\ WithoutPage(f.options) = InitialOptions(w)
              /\ Get(f.options, "per_page") = Num(100)
              /\ WithoutPage(SearchParams(f.options)) = SearchParams(InitialOptions(w))
              /\ f.endpoint = fetches[w][1].endpoint
              /\ f.endpoint = endpoint[w]

C14_Witness ==
  /\ called[1].op = "listProjects"
  /\ called[1].targetUrl = GroupUrl
  /\ Truthy(called[1].options.last_activity_after)
  /\ Len(fetches[1]) = 2
  /\ Len(fetches[1][1].options) = 3
  /\ Len(fetches[1][2].options) = 4
  /\ Get(fetches[1][2].options, "page") = Num(2)

\* a path relative to the API base URL: it begins with "/" and names no
\* origin
IsRelative(path) ==
  /\ path # <<>>
  /\ path[1] = "/"
  /\ \A i \in Integrations : ~Contains(path, i.baseUrl)

\* C15: every URL a walk of a listing operation requests is the API base
\* URL of the client followed by a relative endpoint path and its query
\* string, so that no API base URL occurs in it a second time.
C15_BaseUrlOnce ==
  \A w \in Walks :
    \A url \in Requested(w) :
      /\ SubSeq(url, 1, Len(config.apiBaseUrl)) = config.apiBaseUrl
      /\ IsRelative(SubSeq(url, Len(config.apiBaseUrl) + 1, Len(url)))

(***************************************************************************)
(* Properties of a walk that has ended, and of pagedRequest.               *)
(***************************************************************************)
\* C16: once a walk has ended, after its last page or by a failed fetch, it
\* stays ended: a further next() is answered with the end of the sequence
\* and nothing else, no fetch is issued and its options are left alone; and
\* the first fetch of every walk, also of one started by making the listing
\* call again, carries the initial options, without a page cursor.
C16_NotRestartable ==
  /\ [][\A w \in Walks :
          pc[w] = "completed" =>
            /\ pc'[w] = "completed"
            /\ fetches'[w] = fetches[w]
            /\ results'[w] = results[w]
            /\ inflight'[w] = <<>>
            /\ heap'[optRef[w]] = heap[optRef[w]]
            /\ events'[w] \in {events[w], Append(events[w], Done)}]_vars
  /\ [](\A w \in Walks :
          fetches[w] # <<>> =>
            /\ ~HasKey(fetches[w][1].options, "page")
            /\ listOptionsToQueryString(fetches[w][1].options)
                 = <<"?", "per_page", "=", "100">>)

\* the first walk ended by a failed fetch after a page that named page 2,
\* was advanced again, and the call made again fetches without a cursor
C16_Witness ==
  /\ pc[1] = "completed"
  /\ Len(results[1]) = 2
  /\ results[1][2].kind = "throw"
  /\ Get(heap[optRef[1]], "page") = Num(2)
  /\ post[1] >= 1
  /\ Last(events[1]) = Done
  /\ called[2] = called[1]
  /\ Len(fetches[2]) = 1
  /\ ~HasKey(fetches[2][1].options, "page")

\* the header is a numeral
IsNumeral(h) ==
  h.t = "string" /\ \E n \in 0..MaxPageNo : h.s = <<ToString(n)>>
NumeralOf(h) == CHOOSE n \in 0..MaxPageNo : h.s = <<ToString(n)>>
\* the first request of the walk has been answered with a page
FirstPage == results[1] # <<>> /\ IsPage(results[1][1])
\* the walk stops after its first page
StopsAfterFirst ==
  /\ Len(fetches[1]) = 1
  /\ inflight[1] = <<>>
  /\ pc[1] \in {"suspendedYield", "completed"}
  /\ pc[1] = "completed" => Yielded(1) = results[1][1].items
\* the walk goes on with page n after its first page
ContinuesWith(n) ==
  /\ pc[1] = "completed" => Len(fetches[1]) = 2
  /\ Len(fetches[1]) >= 2 =>
       /\ Get(fetches[1][2].options, "page") = Num(n)
       /\ PageParams(fetches[1][2]) = <<<<"page", <<ToString(n)>>>>>>

\* C17 as stated: the page pagedRequest returns has the decoded body as its
\* items and no next-page value when the header is absent or not a numeral,
\* and the number n when the header is the numeral n; the walk stops after
\* the first and goes on with page n after the second.
C17_HeaderDecides ==
  FirstPage =>
    LET h == arg.answer.header
        r == results[1][1]
    IN /\ r.items = arg.answer.body.items
       /\ IF IsNumeral(h)
          THEN r.nextPage = Num(NumeralOf(h)) /\ ContinuesWith(NumeralOf(h))
          ELSE NoNext(r) /\ StopsAfterFirst

\* C17 amended: the page pagedRequest returns has the decoded body as its
\* items and, as its next-page value, null when the header is absent or
\* empty, NaN when the header is not empty and not a numeral, and the number
\* n when the header is the numeral n; the walk stops after a page whose
\* next-page value is null, NaN or 0 and goes on with page n after a page
\* whose header is a numeral n other than 0.
C17_HeaderDecidesUnlessFalsy ==
  FirstPage =>
    LET h == arg.answer.header
        r == results[1][1]
    IN /\ r.items = arg.answer.body.items
       /\ CASE IsNumeral(h) /\ NumeralOf(h) # 0 ->
                 r.nextPage = Num(NumeralOf(h)) /\ ContinuesWith(NumeralOf(h))
            [] IsNumeral(h) /\ NumeralOf(h) = 0 ->
                 r.nextPage = Num(0) /\ StopsAfterFirst
            [] h = Null \/ h = Str(<<>>) ->
                 r.nextPage = Null /\ StopsAfterFirst
            [] OTHER ->
                 r.nextPage = NaN /\ StopsAfterFirst

C17_Witness ==
  /\ FirstPage
  /\ arg.answer.header = Str(<<"abc">>)
  /\ results[1][1].nextPage = NaN
  /\ Len(results[1][1].items) = 2
  /\ pc[1] = "completed"
  /\ Get(heap[optRef[1]], "page") = NaN

====
